---- MODULE Spec2Model ----
(***************************************************************************)
(* COG tile rendering (app/lib/cogLayerClient.ts): the shared throttle     *)
(* gate, the per-tile render job (renderCogTile) and the colorizer.         *)
(*                                                                          *)
(* Geographic coordinates are integers in hundredths of a degree.          *)
(* Two specifications share the gate's definitions:                         *)
(*   SpecGate  throttle<T>(fn) for any fn that settles (returns or throws), *)
(*             with enough callers to saturate the gate;                    *)
(*   Spec      renderCogTile jobs step by step (each await is a step);      *)
(*   SpecFn    one call of a helper (bboxesIntersect, getSlopeColor, the    *)
(*             pixel loop's body, the overview choice) on a drawn input.    *)
(***************************************************************************)
EXTENDS Integers, Sequences, FiniteSets, TLC

VARIABLES
    activeRequests,   \* let activeRequests = 0
    pendingQueue,     \* const pendingQueue: resolvers of suspended callers, by job
    resumeQueue,      \* resolved waiters whose continuation has not run yet (microtask order)
    pc,               \* each job's position
    admitted,         \* per job: how many times it executed activeRequests++
    released,         \* per job: how many times it executed the finally block
    threw,            \* per job: fn's promise is rejected and not yet caught
    enqLog,           \* history: jobs in the order they were pushed on pendingQueue
    wakeLog,          \* history: jobs in the order their resolver was called
    req,              \* per job: the tile request and what the job did for it
    fuelLegendCache,  \* let fuelLegendCache = null: <<>>, or <<the cached legend>>
    source            \* per layer: the GeoTIFF behind /api/cog/<layer>

vars == <<activeRequests, pendingQueue, resumeQueue, pc, admitted, released,
          threw, enqLog, wakeLog, req, fuelLegendCache, source>>

gateVars == <<activeRequests, pendingQueue, resumeQueue, admitted, released,
              enqLog, wakeLog>>

(***************************************************************************)
(* Bounds and program constants                                             *)
(***************************************************************************)
NumGateJobs == 8
NumTileJobs == 2
MaxCoord == 3       \* boxes have their corners on the grid 0..MaxCoord
MaxSample == 420    \* samples run from -2.0 to MaxSample / 10
MaxLevels == 3      \* a GeoTIFF has 1..MaxLevels images

MAX_CONCURRENT == 6
SAFE_SOURCE_PIXELS == 4000000
HARD_LIMIT_SOURCE_PIXELS == 50000000

GateJobs == 1..NumGateJobs
TileJobs == 1..NumTileJobs

\* [minLon, minLat, maxLon, maxLat], hundredths of a degree
COG_BOUNDS == <<-12839, 2243, -6405, 5248>>

Layers == {"fuel", "slope"}

(***************************************************************************)
(* Tile geometry                                                            *)
(***************************************************************************)
\* atan(sinh(PI * (1 - 2 * k / 16))) in hundredths of a degree, k = 0..16:
\* the latitude of every tile edge at zoom levels 0..4.
MercatorLat == <<8505, 8268, 7917, 7402, 6651, 5578, 4098, 2194, 0,
                 -2194, -4098, -5578, -6651, -7402, -7917, -8268, -8505>>

Pow2(z) == CASE z = 0 -> 1 [] z = 1 -> 2 [] z = 2 -> 4 [] z = 3 -> 8 [] z = 4 -> 16

\* tileToBBox(x, y, z), for z in 0..4
tileToBBox(x, y, z) ==
    LET n == Pow2(z)
        lonMin == (x * 36000) \div n - 18000
        lonMax == ((x + 1) * 36000) \div n - 18000
        latMin == MercatorLat[((y + 1) * 16) \div n + 1]
        latMax == MercatorLat[(y * 16) \div n + 1]
    IN  <<lonMin, latMin, lonMax, latMax>>

\* The same test with touching boxes counted as apart
bboxesIntersectOpen(a, b) ==
    ~(a[3] <= b[1] \/ a[1] >= b[3] \/ a[4] <= b[2] \/ a[2] >= b[4])

bboxesIntersect(a, b) ==
    ~(a[3] < b[1] \/ a[1] > b[3] \/ a[4] < b[2] \/ a[2] > b[4])

(***************************************************************************)
(* The throttle gate                                                        *)
(***************************************************************************)
\* if (activeRequests >= MAX_CONCURRENT)
GateFull == activeRequests >= MAX_CONCURRENT

\* pendingQueue.shift(): the resolver taken and the queue left
PopLast(q) == [next |-> q[Len(q)], rest |-> SubSeq(q, 1, Len(q) - 1)]
Shift(q) == [next |-> Head(q), rest |-> Tail(q)]

\* if (next): a resolver was taken from the queue
HasNextNever(q) == FALSE
HasNext(q) == q # <<>>

\* try { ... } finally { ... }: the finally block runs however fn settled
ReleaseOnlyOnReturn(j) == ~threw[j]
ReleaseRuns(j) == TRUE

\* await new Promise((res) => pendingQueue.push(res)): the caller is suspended
Suspend(j) ==
    /\ pendingQueue' = Append(pendingQueue, j)
    /\ enqLog' = Append(enqLog, j)
    /\ UNCHANGED <<activeRequests, resumeQueue, admitted, released, wakeLog>>

\* activeRequests++ (the caller goes on into try { await fn() })
Admit(j) ==
    /\ activeRequests' = activeRequests + 1
    /\ admitted' = [admitted EXCEPT ![j] = @ + 1]

\* finally { activeRequests--; const next = pendingQueue.shift(); if (next) next(); }
\* As a set of changes to the gate; wakes names the waiter resolved, if any.
Finally(j) ==
    IF ReleaseRuns(j)
    THEN /\ activeRequests' = activeRequests - 1
         /\ released' = [released EXCEPT ![j] = @ + 1]
         /\ IF HasNext(pendingQueue)
            THEN /\ pendingQueue' = Shift(pendingQueue).rest
                 /\ resumeQueue' = Append(resumeQueue, Shift(pendingQueue).next)
                 /\ wakeLog' = Append(wakeLog, Shift(pendingQueue).next)
                 /\ pc' = [pc EXCEPT ![j] = "finished",
                                     ![Shift(pendingQueue).next] = "woken"]
            ELSE /\ UNCHANGED <<pendingQueue, resumeQueue, wakeLog>>
                 /\ pc' = [pc EXCEPT ![j] = "finished"]
    ELSE /\ pc' = [pc EXCEPT ![j] = "finished"]
         /\ UNCHANGED <<activeRequests, released, pendingQueue, resumeQueue, wakeLog>>

(***************************************************************************)
(* SpecGate: throttle(fn) with NumGateJobs callers                          *)
(***************************************************************************)
NoRequest == [layer |-> "none"]

InitGate ==
    /\ activeRequests = 0
    /\ pendingQueue = <<>>
    /\ resumeQueue = <<>>
    /\ pc = [j \in GateJobs |-> "idle"]
    /\ admitted = [j \in GateJobs |-> 0]
    /\ released = [j \in GateJobs |-> 0]
    /\ threw = [j \in GateJobs |-> FALSE]
    /\ enqLog = <<>>
    /\ wakeLog = <<>>
    /\ req = [j \in GateJobs |-> NoRequest]
    /\ fuelLegendCache = <<>>
    /\ source = [l \in Layers |-> "unopened"]

\* throttle(fn) is called: lines 155-158. Callers are numbered in call order.
GateArrive(j) ==
    /\ pc[j] = "idle"
    /\ \A i \in GateJobs : i < j => pc[i] # "idle"
    /\ IF GateFull
       THEN /\ Suspend(j)
            /\ pc' = [pc EXCEPT ![j] = "waiting"]
       ELSE /\ Admit(j)
            /\ pc' = [pc EXCEPT ![j] = "running"]
            /\ UNCHANGED <<pendingQueue, resumeQueue, released, enqLog, wakeLog>>
    /\ UNCHANGED <<threw, req, fuelLegendCache, source>>

\* A resolved waiter's continuation runs: it falls out of the if to line 158.
GateResume(j) ==
    /\ resumeQueue # <<>>
    /\ j = Head(resumeQueue)
    /\ resumeQueue' = Tail(resumeQueue)
    /\ Admit(j)
    /\ pc' = [pc EXCEPT ![j] = "running"]
    /\ UNCHANGED <<pendingQueue, released, enqLog, wakeLog,
                   threw, req, fuelLegendCache, source>>

\* fn's promise settles: it returned (failed = FALSE) or threw.
GateSettle(j, failed) ==
    /\ pc[j] = "running"
    /\ pc' = [pc EXCEPT ![j] = "settled"]
    /\ threw' = [threw EXCEPT ![j] = failed]
    /\ UNCHANGED <<gateVars, req, fuelLegendCache, source>>

\* The continuation of await fn(): the finally block; a rejection then
\* passes to the caller.
GateRelease(j) ==
    /\ pc[j] = "settled"
    /\ Finally(j)
    /\ threw' = [threw EXCEPT ![j] = FALSE]
    /\ UNCHANGED <<admitted, enqLog, req, fuelLegendCache, source>>

NextGate ==
    \/ \E j \in GateJobs : GateArrive(j)
    \/ \E j \in GateJobs : GateResume(j)
    \/ \E j \in GateJobs, failed \in BOOLEAN : GateSettle(j, failed)
    \/ \E j \in GateJobs : GateRelease(j)

SpecGate == InitGate /\ [][NextGate]_vars

\* What the event loop and the jobs do on their own: a resolved waiter's
\* continuation runs, fn settles, the finally block runs.
GateProgress ==
    \/ \E j \in GateJobs : GateResume(j)
    \/ \E j \in GateJobs, failed \in BOOLEAN : GateSettle(j, failed)
    \/ \E j \in GateJobs : GateRelease(j)

\* SpecGate when every admitted job finishes and every continuation runs
SpecGateFair == SpecGate /\ WF_vars(GateProgress)

(***************************************************************************)
(* Raster sources, samples and legends                                      *)
(***************************************************************************)
\* A sample of the band: null, undefined, NaN, or a number in tenths.
Num(v) == [k |-> "num", v |-> v]
Null == [k |-> "null", v |-> 0]
Undefined == [k |-> "undefined", v |-> 0]
NaN == [k |-> "NaN", v |-> 0]

\* A colour string "#rrggbb" is the sequence of its hexadecimal digits.
Hex(a, b, c, d, e, f) == <<a, b, c, d, e, f>>

\* The GeoTIFFs that may sit behind /api/cog/<layer>:
\*   georef  "bbox": getBoundingBox() answers bbox; "tags": it throws and the
\*           tiepoint and pixel scale are present; "none": it throws and they are not
\*   tie, scale   ModelTiepoint[3..4]; ModelPixelScale[0..1] in hundredths of a
\*           degree per 1000 pixels
\*   levels  width and height of image 0 .. imageCount-1
\*   band    what readRasters answers (the whole extent resampled to the tile)
Pyramid == <<<<32000, 16000>>, <<8000, 4000>>, <<2000, 1000>>>>
Medium == <<<<8000, 4000>>>>
Huge == <<<<80000, 40000>>, <<40000, 20000>>>>
Ragged == <<<<2000, 1000>>, <<40000, 20000>>>>    \* the last image is not the smallest

SrcWide == [georef |-> "bbox", bbox |-> <<-12500, 2400, -6600, 5000>>,
            tie |-> <<0, 0>>, scale |-> <<0, 0>>,
            levels |-> Pyramid, band |-> <<Num(20), Num(-10), Num(125)>>]
SrcEast == [georef |-> "tags", bbox |-> <<0, 0, 0, 0>>,
            tie |-> <<-11250, 4000>>, scale |-> <<581, 400>>,
            levels |-> Medium, band |-> <<NaN, Num(74), Null>>]
SrcHuge == [georef |-> "bbox", bbox |-> <<-12500, 2400, -6600, 5000>>,
            tie |-> <<0, 0>>, scale |-> <<0, 0>>,
            levels |-> Huge, band |-> <<Undefined, Num(0), Num(430)>>]
SrcBare == [georef |-> "none", bbox |-> <<0, 0, 0, 0>>,
            tie |-> <<0, 0>>, scale |-> <<0, 0>>,
            levels |-> Pyramid, band |-> <<Num(10)>>]
SrcRagged == [georef |-> "bbox", bbox |-> <<-12500, 2400, -6600, 5000>>,
              tie |-> <<0, 0>>, scale |-> <<0, 0>>,
              levels |-> Ragged, band |-> <<Num(33), Num(300)>>]

Sources == {SrcWide, SrcEast, SrcHuge, SrcBare, SrcRagged}

\* Tile requests <<z, x, y>>
Tiles == {<<4, 2, 3>>, <<4, 3, 6>>, <<4, 2, 5>>, <<4, 2, 6>>}

\* tileSize: 256 (canvas.width), the width and height asked of readRasters
TileSize == 256

(***************************************************************************)
(* renderCogTile: the job body                                              *)
(***************************************************************************)
CeilDiv(a, b) == (a + b - 1) \div b
Max(a, b) == IF a >= b THEN a ELSE b
Min(a, b) == IF a <= b THEN a ELSE b

\* imgBbox: getBoundingBox(), or from the tiepoint and pixel scale of image 0
ImgBbox(src) ==
    IF src.georef = "bbox" THEN src.bbox
    ELSE LET w == src.levels[1][1]
             h == src.levels[1][2]
         IN  <<src.tie[1], src.tie[2] - (src.scale[2] * h) \div 1000,
               src.tie[1] + (src.scale[1] * w) \div 1000, src.tie[2]>>

\* computeSourcePixels(img) for an image of imgW x imgH pixels
computeSourcePixels(dims, imgBbox, tileBounds) ==
    LET imgWidthDeg == imgBbox[3] - imgBbox[1]
        imgHeightDeg == imgBbox[4] - imgBbox[2]
        clampedMinX == Max(tileBounds[1], imgBbox[1])
        clampedMaxX == Min(tileBounds[3], imgBbox[3])
        clampedMinY == Max(tileBounds[2], imgBbox[2])
        clampedMaxY == Min(tileBounds[4], imgBbox[4])
    IN  IF clampedMaxX <= clampedMinX \/ clampedMaxY <= clampedMinY THEN 0
        ELSE CeilDiv((clampedMaxX - clampedMinX) * dims[1], imgWidthDeg)
             * CeilDiv((clampedMaxY - clampedMinY) * dims[2], imgHeightDeg)

\* The loop for (let i = imageCount - 1; i >= 0; i--): image indices are 0-based.
RECURSIVE ScanLevels(_, _, _, _)
ScanLevels(i, levels, imgBbox, tileBounds) ==
    IF i < 0
    THEN [index |-> Len(levels) - 1,
          pixels |-> computeSourcePixels(levels[Len(levels)], imgBbox, tileBounds)]
    ELSE LET pix == computeSourcePixels(levels[i + 1], imgBbox, tileBounds)
         IN  IF pix = 0 \/ pix <= SAFE_SOURCE_PIXELS
             THEN [index |-> i, pixels |-> pix]
             ELSE ScanLevels(i - 1, levels, imgBbox, tileBounds)

\* The finest image within the soft budget instead of the coarsest
ChooseOverviewFromFinest(levels, imgBbox, tileBounds) ==
    LET fits == {i \in 0..Len(levels) - 1 :
                   computeSourcePixels(levels[i + 1], imgBbox, tileBounds)
                      <= SAFE_SOURCE_PIXELS}
        index == IF fits = {} THEN Len(levels) - 1
                 ELSE CHOOSE i \in fits : \A k \in fits : i <= k
    IN  [index |-> index,
         pixels |-> computeSourcePixels(levels[index + 1], imgBbox, tileBounds)]

\* chosenIndex and chosenPixels after the loop (lines 336-373)
ChooseOverview(levels, imgBbox, tileBounds) ==
    ScanLevels(Len(levels) - 1, levels, imgBbox, tileBounds)

\* if (chosenPixels > HARD_LIMIT_SOURCE_PIXELS)
OverHardLimitNever(pixels) == FALSE
OverHardLimit(pixels) == pixels > HARD_LIMIT_SOURCE_PIXELS

\* if (layerName === "slope"): the source that aborts above the hard limit
StrictAlways(layerName) == TRUE
Strict(layerName) == layerName = "slope"

(***************************************************************************)
(* Colour maps and the colorizer                                            *)
(***************************************************************************)
\* SLOPE_COLORMAP: <<threshold in tenths, colour>>
SLOPE_COLORMAP == <<
    <<0,   Hex(15, 7, 15, 12, 15, 5)>>,     \* [0,  "#f7fcf5"]
    <<50,  Hex(14, 5, 15, 5, 14, 0)>>,      \* [5,  "#e5f5e0"]
    <<100, Hex(12, 7, 14, 9, 12, 0)>>,      \* [10, "#c7e9c0"]
    <<150, Hex(10, 1, 13, 9, 9, 11)>>,      \* [15, "#a1d99b"]
    <<200, Hex(7, 4, 12, 4, 7, 6)>>,        \* [20, "#74c476"]
    <<250, Hex(4, 1, 10, 11, 5, 13)>>,      \* [25, "#41ab5d"]
    <<300, Hex(2, 3, 8, 11, 4, 5)>>,        \* [30, "#238b45"]
    <<350, Hex(0, 0, 6, 13, 2, 12)>>,       \* [35, "#006d2c"]
    <<400, Hex(0, 0, 4, 4, 1, 11)>> >>      \* [40, "#00441b"]

\* The mapping fetchFuelLegend returns when the fetch fails: key -> colour
DefaultLegend ==
    (1 :> Hex(15, 7, 15, 12, 11, 9)) @@     \* "#f7fcb9"
    (2 :> Hex(10, 13, 13, 13, 8, 14)) @@    \* "#addd8e"
    (3 :> Hex(7, 8, 12, 6, 7, 9))           \* "#78c679"

\* What /api/cog/fuel-legend may answer; "#1c9" is not a six-digit colour.
ServedLegend ==
    (2 :> Hex(10, 13, 13, 13, 8, 14)) @@
    (7 :> Hex(2, 12, 10, 2, 5, 15)) @@
    (13 :> <<1, 12, 9>>) @@
    (-1 :> Hex(15, 15, 0, 0, 0, 0))

\* hexToRgb: /^#?([a-f\d]{2})([a-f\d]{2})([a-f\d]{2})$/i, else [200, 200, 200]
hexToRgb(hex) ==
    IF Len(hex) = 6 /\ \A i \in 1..6 : hex[i] \in 0..15
    THEN <<16 * hex[1] + hex[2], 16 * hex[3] + hex[4], 16 * hex[5] + hex[6]>>
    ELSE <<200, 200, 200>>

\* Math.round(num / den) for den > 0: the nearest integer, halves upwards
RoundDivDown(num, den) == num \div den
RoundDiv(num, den) == (2 * num + den) \div (2 * den)

\* getSlopeColor(value), value in tenths
RECURSIVE SlopeScan(_, _)
SlopeScan(i, value) ==
    IF i > Len(SLOPE_COLORMAP) - 1
    THEN IF value < SLOPE_COLORMAP[1][1]
         THEN hexToRgb(SLOPE_COLORMAP[1][2])
         ELSE hexToRgb(SLOPE_COLORMAP[Len(SLOPE_COLORMAP)][2])
    ELSE LET v1 == SLOPE_COLORMAP[i][1]
             v2 == SLOPE_COLORMAP[i + 1][1]
             rgb1 == hexToRgb(SLOPE_COLORMAP[i][2])
             rgb2 == hexToRgb(SLOPE_COLORMAP[i + 1][2])
         IN  IF value >= v1 /\ value <= v2
             THEN [c \in 1..3 |->
                     RoundDiv(rgb1[c] * (v2 - v1) + (rgb2[c] - rgb1[c]) * (value - v1),
                              v2 - v1)]
             ELSE SlopeScan(i + 1, value)

getSlopeColor(value) == SlopeScan(1, value)

\* value === null || value === undefined || isNaN(value) || value < 0
IsNoDataIgnoringSign(value) == value.k # "num"
IsNoData(value) == value.k # "num" \/ value.v < 0

\* Math.round(value).toString(), as the integer the key spells
LegendKeyFloor(value) == value.v \div 10
LegendKey(value) == (value.v + 5) \div 10

\* One iteration of the loop over the band (lines 430-454): the pixel's RGBA
ColorizePixel(value, layerName, fuelLegend) ==
    IF IsNoData(value) THEN <<0, 0, 0, 0>>
    ELSE LET rgb == IF layerName = "slope" THEN getSlopeColor(value.v)
                    ELSE IF LegendKey(value) \in DOMAIN fuelLegend
                         THEN hexToRgb(fuelLegend[LegendKey(value)])
                         ELSE <<200, 200, 200>>
         IN  <<rgb[1], rgb[2], rgb[3], 255>>

Colorize(band, layerName, fuelLegend) ==
    [i \in 1..Len(band) |-> ColorizePixel(band[i], layerName, fuelLegend)]

(***************************************************************************)
(* Spec: renderCogTile jobs, one action per await                           *)
(***************************************************************************)
\* A request as createTile hands it to renderCogTile, and what the job did:
\*   opens          calls of fromUrl(cogUrl)
\*   chosen         chosenIndex once the overview is chosen, else -1
\*   reads          the readRasters calls issued: level, bbox, width, height
\*   readFailures   how many of them were rejected
\*   legendFetches  calls of fetch("/api/cog/fuel-legend")
\*   legendFailures how many of them failed or answered not-ok
\*   dones          the done(...) calls: err, and whether the slot was still held
\*   pixels         the canvas: <<>> while blank (transparent), else its RGBA pixels
\*   supersededAt   where the job stood when the viewer dropped its tile
NewRequest(layerName, coords) ==
    [layer |-> layerName, tile |-> coords, opens |-> 0, chosen |-> -1,
     reads |-> <<>>, readFailures |-> 0, legendFetches |-> 0, legendFailures |-> 0,
     dones |-> <<>>,
     pixels |-> <<>>, supersededAt |-> "never"]

TileBounds(r) == tileToBBox(r.tile[2], r.tile[3], r.tile[1])

\* done(err, canvas) called from inside fn, before throttle's finally
DoneSkipped(r, e) == r
Done(r, e) == [r EXCEPT !.dones = Append(@, [err |-> e, slotHeld |-> TRUE])]

\* readRasters({ bbox: imgBbox, width: tileSize, height: tileSize }) on image `level`
ReadCall(r, level) ==
    [r EXCEPT !.reads = Append(@, [level |-> level, bbox |-> ImgBbox(source[r.layer]),
                                   width |-> TileSize, height |-> TileSize])]

\* tiff.getImage(imageCount - 1): the image the failed read is retried on
FallbackIndexFinest(levels) == 0
FallbackIndex(levels) == Len(levels) - 1

\* if (!bboxesIntersect(tileBounds, imgBbox)), line 327
MissesSourceNever(tileBounds, imgBbox) == FALSE
MissesSource(tileBounds, imgBbox) == ~bboxesIntersect(tileBounds, imgBbox)

\* Lines 285-298, run synchronously once the job is inside the gate:
\* the request after them and where the job stands.
EnterBodyNoSkip(r) == [req |-> r, pc |-> "open"]
EnterBody(r) ==
    IF ~bboxesIntersect(TileBounds(r), COG_BOUNDS)
    THEN [req |-> Done(r, "none"), pc |-> "settled"]
    ELSE [req |-> r, pc |-> "open"]

\* if (!mt || !mps), after getBoundingBox() threw (lines 310-316)
NoGeoreferenceNever(src) == FALSE
NoGeoreference(src) == src.georef = "none"

\* Lines 303-402 once fromUrl, getImageCount and getImage have answered.
AfterOpen(r) ==
    LET src == source[r.layer]
        opened == [r EXCEPT !.opens = @ + 1]
        imgBbox == ImgBbox(src)
        pick == ChooseOverview(src.levels, imgBbox, TileBounds(r))
        picked == [opened EXCEPT !.chosen = pick.index]
    IN  IF NoGeoreference(src)
        THEN [req |-> Done(opened, "No georeference information"), pc |-> "settled"]
        ELSE IF MissesSource(TileBounds(r), imgBbox)
        THEN [req |-> Done(opened, "none"), pc |-> "settled"]
        ELSE IF OverHardLimit(pick.pixels) /\ Strict(r.layer)
        THEN [req |-> Done(picked, "none"), pc |-> "settled"]
        ELSE IF OverHardLimit(pick.pixels)
        THEN [req |-> ReadCall([opened EXCEPT !.chosen = Len(src.levels) - 1],
                               Len(src.levels) - 1),
              pc |-> "read"]
        ELSE [req |-> ReadCall(picked, pick.index), pc |-> "read"]

\* Lines 430-457: colorize the band, putImageData, done(undefined, canvas)
Paint(r, fuelLegend) ==
    Done([r EXCEPT !.pixels = Colorize(source[r.layer].band, r.layer, fuelLegend)],
         "none")

\* Lines 416-428 once a read has answered: the canvas context, then the legend.
AfterRead(r, hasCtx) ==
    IF ~hasCtx
    THEN [req |-> Done(r, "Cannot get canvas context"), pc |-> "settled", fetch |-> FALSE]
    ELSE IF r.layer = "fuel" /\ fuelLegendCache = <<>>
    THEN [req |-> [r EXCEPT !.legendFetches = @ + 1], pc |-> "legend", fetch |-> TRUE]
    ELSE [req |-> Paint(r, IF r.layer = "fuel" THEN fuelLegendCache[1] ELSE <<>>),
          pc |-> "settled", fetch |-> FALSE]

Init ==
    /\ activeRequests = 0
    /\ pendingQueue = <<>>
    /\ resumeQueue = <<>>
    /\ pc = [j \in TileJobs |-> "idle"]
    /\ admitted = [j \in TileJobs |-> 0]
    /\ released = [j \in TileJobs |-> 0]
    /\ threw = [j \in TileJobs |-> FALSE]
    /\ enqLog = <<>>
    /\ wakeLog = <<>>
    /\ req = [j \in TileJobs |-> NoRequest]
    /\ fuelLegendCache = <<>>
    /\ source \in [Layers -> Sources]

\* createTile -> renderCogTile -> throttle: a tile request arrives.
\* Requests are numbered in arrival order.
TileArrive(j, layerName, coords) ==
    /\ pc[j] = "idle"
    /\ \A i \in TileJobs : i < j => pc[i] # "idle"
    /\ IF GateFull
       THEN /\ Suspend(j)
            /\ pc' = [pc EXCEPT ![j] = "waiting"]
            /\ req' = [req EXCEPT ![j] = NewRequest(layerName, coords)]
       ELSE /\ Admit(j)
            /\ pc' = [pc EXCEPT ![j] = EnterBody(NewRequest(layerName, coords)).pc]
            /\ req' = [req EXCEPT ![j] = EnterBody(NewRequest(layerName, coords)).req]
            /\ UNCHANGED <<pendingQueue, resumeQueue, released, enqLog, wakeLog>>
    /\ UNCHANGED <<threw, fuelLegendCache, source>>

\* await fromUrl / getImageCount / getImage: answered (ok) or rejected.
TileOpen(j, ok) ==
    /\ pc[j] = "open"
    /\ IF ok
       THEN /\ pc' = [pc EXCEPT ![j] = AfterOpen(req[j]).pc]
            /\ req' = [req EXCEPT ![j] = AfterOpen(req[j]).req]
            /\ UNCHANGED threw
       ELSE /\ pc' = [pc EXCEPT ![j] = "settled"]
            /\ req' = [req EXCEPT ![j].opens = @ + 1]
            /\ threw' = [threw EXCEPT ![j] = TRUE]
    /\ UNCHANGED <<gateVars, fuelLegendCache, source>>

\* await chosenImage.readRasters(...): answered, or rejected and retried on
\* image imageCount - 1 (lines 403-407).
TileRead(j, ok, hasCtx) ==
    /\ pc[j] = "read"
    /\ IF ok
       THEN /\ pc' = [pc EXCEPT ![j] = AfterRead(req[j], hasCtx).pc]
            /\ req' = [req EXCEPT ![j] = AfterRead(req[j], hasCtx).req]
       ELSE /\ pc' = [pc EXCEPT ![j] = "retry"]
            /\ req' = [req EXCEPT ![j] =
                          ReadCall([@ EXCEPT !.readFailures = @ + 1],
                                   FallbackIndex(source[req[j].layer].levels))]
    /\ UNCHANGED <<gateVars, threw, fuelLegendCache, source>>

\* await fallback.readRasters(...): answered, or rejected: done(err2, canvas).
TileRetry(j, ok, hasCtx) ==
    /\ pc[j] = "retry"
    /\ IF ok
       THEN /\ pc' = [pc EXCEPT ![j] = AfterRead(req[j], hasCtx).pc]
            /\ req' = [req EXCEPT ![j] = AfterRead(req[j], hasCtx).req]
       ELSE /\ pc' = [pc EXCEPT ![j] = "settled"]
            /\ req' = [req EXCEPT ![j] =
                          Done([@ EXCEPT !.readFailures = @ + 1], "read failed")]
    /\ UNCHANGED <<gateVars, threw, fuelLegendCache, source>>

\* fetchFuelLegend past its await (lines 188-199): the legend arrived and is
\* cached (ok), or the fetch failed or answered not-ok and the built-in
\* mapping is returned; legend is what it returns, cache what it leaves cached.
fetchFuelLegendEmptyOnFailure(ok) ==
    IF ok THEN [legend |-> ServedLegend, cache |-> <<ServedLegend>>]
    ELSE [legend |-> <<>>, cache |-> fuelLegendCache]
fetchFuelLegend(ok) ==
    IF ok THEN [legend |-> ServedLegend, cache |-> <<ServedLegend>>]
    ELSE [legend |-> DefaultLegend, cache |-> fuelLegendCache]

\* The continuation of await fetchFuelLegend(): the pixel loop and done.
TileLegend(j, ok) ==
    /\ pc[j] = "legend"
    /\ pc' = [pc EXCEPT ![j] = "settled"]
    /\ fuelLegendCache' = fetchFuelLegend(ok).cache
    /\ req' = [req EXCEPT ![j] =
                  Paint([@ EXCEPT !.legendFailures = IF ok THEN @ ELSE @ + 1],
                        fetchFuelLegend(ok).legend)]
    /\ UNCHANGED <<gateVars, threw, source>>

\* The viewer drops the tile of a job that is reading (map.removeLayer(old)).
Supersede(j) ==
    /\ pc[j] \in {"read", "retry"}
    /\ req[j].supersededAt = "never"
    /\ req' = [req EXCEPT ![j].supersededAt = pc[j]]
    /\ UNCHANGED <<gateVars, pc, threw, fuelLegendCache, source>>

\* The continuation of await fn(): throttle's finally, then renderCogTile's
\* catch when fn threw: done(err, canvas).
TileRelease(j) ==
    /\ pc[j] = "settled"
    /\ Finally(j)
    /\ req' = IF threw[j]
              THEN [req EXCEPT ![j].dones =
                        Append(@, [err |-> "thrown", slotHeld |-> FALSE])]
              ELSE req
    /\ threw' = [threw EXCEPT ![j] = FALSE]
    /\ UNCHANGED <<admitted, enqLog, fuelLegendCache, source>>

Next ==
    \/ \E j \in TileJobs, l \in Layers, t \in Tiles : TileArrive(j, l, t)
    \/ \E j \in TileJobs, ok \in BOOLEAN : TileOpen(j, ok)
    \/ \E j \in TileJobs, ok \in BOOLEAN, hasCtx \in BOOLEAN : TileRead(j, ok, hasCtx)
    \/ \E j \in TileJobs, ok \in BOOLEAN, hasCtx \in BOOLEAN : TileRetry(j, ok, hasCtx)
    \/ \E j \in TileJobs, ok \in BOOLEAN : TileLegend(j, ok)
    \/ \E j \in TileJobs : Supersede(j)
    \/ \E j \in TileJobs : TileRelease(j)

Spec == Init /\ [][Next]_vars

(***************************************************************************)
(* SpecFn: one call of a helper function on an input drawn from a set       *)
(***************************************************************************)
\* Boxes [minX, minY, maxX, maxY] with corners on the grid
Boxes ==
    {b \in (0..MaxCoord) \X (0..MaxCoord) \X (0..MaxCoord) \X (0..MaxCoord) :
        b[1] <= b[3] /\ b[2] <= b[4]}

\* Boxes whose minimum exceeds their maximum on some axis
InvertedBoxes ==
    {b \in (0..MaxCoord) \X (0..MaxCoord) \X (0..MaxCoord) \X (0..MaxCoord) :
        b[1] > b[3] \/ b[2] > b[4]}

\* Sample values, in tenths
Samples == -20..MaxSample

\* The legends the pixel loop may be handed
Legends == {ServedLegend, DefaultLegend}

\* Image sizes, and the catalogs of 1..MaxLevels images made of them, in any order
LevelDims == {<<500, 250>>, <<8000, 4000>>, <<40000, 20000>>}
Catalogs == UNION {[1..n -> LevelDims] : n \in 1..MaxLevels}

\* Extents and the tiles, of zoom 3 and 4, that reach the overview choice for them
Extents == {ImgBbox(SrcWide), ImgBbox(SrcEast)}
FnTiles == Tiles \cup {<<3, 1, 2>>, <<3, 1, 3>>, <<3, 2, 3>>}
TilesOver(imgBbox) ==
    {t \in FnTiles : /\ bboxesIntersect(tileToBBox(t[2], t[3], t[1]), COG_BOUNDS)
                   /\ bboxesIntersect(tileToBBox(t[2], t[3], t[1]), imgBbox)}

Call(fn, args) == [fn |-> fn, args |-> args, out |-> <<>>]

InitFn ==
    /\ activeRequests = 0
    /\ pendingQueue = <<>>
    /\ resumeQueue = <<>>
    /\ pc = <<"call">>
    /\ admitted = <<0>>
    /\ released = <<0>>
    /\ threw = <<FALSE>>
    /\ enqLog = <<>>
    /\ wakeLog = <<>>
    /\ fuelLegendCache = <<>>
    /\ source = [l \in Layers |-> "unopened"]
    /\ \/ \E a \in Boxes, b \in Boxes : req = Call("bboxesIntersect", <<a, b>>)
       \/ \E a \in InvertedBoxes, b \in Boxes :
             \/ req = Call("bboxesIntersect", <<a, b>>)
             \/ req = Call("bboxesIntersect", <<b, a>>)
       \/ \E v \in Samples : req = Call("getSlopeColor", <<v>>)
       \/ \E v \in Samples, l \in Layers, legend \in Legends :
             req = Call("ColorizePixel", <<Num(v), l, legend>>)
       \/ \E levels \in Catalogs, e \in Extents :
             \E t \in TilesOver(e) :
                req = Call("ChooseOverview", <<levels, e, tileToBBox(t[2], t[3], t[1])>>)

Return(value) ==
    /\ req.out = <<>>
    /\ req' = [req EXCEPT !.out = <<value>>]
    /\ pc' = <<"returned">>
    /\ UNCHANGED <<gateVars, threw, fuelLegendCache, source>>

CallBboxesIntersect ==
    /\ req.fn = "bboxesIntersect"
    /\ Return(bboxesIntersect(req.args[1], req.args[2]))

CallGetSlopeColor ==
    /\ req.fn = "getSlopeColor"
    /\ Return(getSlopeColor(req.args[1]))

CallColorizePixel ==
    /\ req.fn = "ColorizePixel"
    /\ Return(ColorizePixel(req.args[1], req.args[2], req.args[3]))

CallChooseOverview ==
    /\ req.fn = "ChooseOverview"
    /\ Return(ChooseOverview(req.args[1], req.args[2], req.args[3]))

NextFn ==
    \/ CallBboxesIntersect
    \/ CallGetSlopeColor
    \/ CallColorizePixel
    \/ CallChooseOverview

SpecFn == InitFn /\ [][NextFn]_vars

(***************************************************************************)
(* Properties                                                               *)
(***************************************************************************)
Jobs == DOMAIN pc
Requested(j) == pc[j] # "idle"
Ended(j) == pc[j] \in {"settled", "finished"}
OutsideEnforced(r) == ~bboxesIntersect(TileBounds(r), COG_BOUNDS)
Transparent(r) == r.pixels = <<>>
NoErrorDelivered(r) == Len(r.dones) = 1 /\ r.dones[1].err = "none"
\* fn threw: its rejection is pending, or renderCogTile's catch has reported it
Threw(j) == threw[j] \/ \E i \in 1..Len(req[j].dones) : req[j].dones[i].err = "thrown"

\* C1: in every interleaving of arrivals, wake-ups, resumptions and releases,
\* the number of admitted and not yet released jobs never exceeds MAX_CONCURRENT.
C1_ActiveWithinMax == activeRequests <= MAX_CONCURRENT

\* C2: every admitted job releases its slot exactly once, however its body
\* ends; a job not admitted never releases; activeRequests is never negative
\* and is the number of admitted and unreleased jobs.
C2_ReleasedExactlyOnce ==
    /\ \A j \in Jobs :
          /\ pc[j] \in {"idle", "waiting", "woken"} =>
                admitted[j] = 0 /\ released[j] = 0
          /\ pc[j] \in {"running", "open", "read", "retry", "legend", "settled"} =>
                admitted[j] = 1 /\ released[j] = 0
          /\ pc[j] = "finished" => admitted[j] = 1 /\ released[j] = 1
    /\ activeRequests >= 0
    /\ activeRequests = Cardinality({j \in Jobs : admitted[j] > released[j]})

\* Jobs have finished after an early return (outside the enforced extent),
\* after a throw, and after painting a tile, each having released once.
C2_Witness ==
    \E j \in Jobs :
       /\ pc[j] = "finished" /\ Threw(j) /\ released[j] = 1
       /\ \E i \in Jobs :
             /\ pc[i] = "finished" /\ ~Threw(i) /\ released[i] = 1
             /\ OutsideEnforced(req[i])

\* C3: a request whose tile does not intersect COG_BOUNDS gets a transparent
\* tile and no error, and the job opens no source, chooses no level, reads
\* nothing and fetches no legend.
C3_OutsideEnforcedSkips ==
    \A j \in Jobs :
       Requested(j) /\ OutsideEnforced(req[j]) =>
          /\ req[j].opens = 0
          /\ req[j].chosen = -1
          /\ req[j].reads = <<>>
          /\ req[j].legendFetches = 0
          /\ Transparent(req[j])
          /\ pc[j] \notin {"open", "read", "retry", "legend"}
          /\ Ended(j) => NoErrorDelivered(req[j])

\* Tile z=4, x=2, y=3 has been answered with a transparent tile.
C3_Witness ==
    \E j \in Jobs :
       /\ pc[j] = "finished"
       /\ req[j].tile = <<4, 2, 3>>
       /\ OutsideEnforced(req[j])
       /\ NoErrorDelivered(req[j])

\* The source behind the request's layer was opened and has an extent.
Opened(j) == Requested(j) /\ req[j].opens = 1 /\ ~Threw(j)
OutsideSource(r) ==
    /\ ~OutsideEnforced(r)
    /\ source[r.layer].georef # "none"
    /\ ~bboxesIntersect(TileBounds(r), ImgBbox(source[r.layer]))

\* C4: a request whose tile intersects COG_BOUNDS but not the opened source's
\* bounding box gets a transparent tile and no error; no level is chosen and
\* readRasters is never called.
C4_OutsideSourceSkips ==
    \A j \in Jobs :
       Requested(j) /\ OutsideSource(req[j]) =>
          /\ req[j].chosen = -1
          /\ req[j].reads = <<>>
          /\ Transparent(req[j])
          /\ pc[j] \notin {"read", "retry", "legend"}
          /\ Opened(j) /\ Ended(j) => NoErrorDelivered(req[j])

C4_Witness ==
    \E j \in Jobs :
       /\ pc[j] = "finished"
       /\ Opened(j)
       /\ OutsideSource(req[j])
       /\ NoErrorDelivered(req[j])

\* The estimate of the level the scan ends on, for a tile inside both extents
Estimate(r) ==
    ChooseOverview(source[r.layer].levels, ImgBbox(source[r.layer]), TileBounds(r)).pixels
InsideBoth(r) ==
    /\ ~OutsideEnforced(r)
    /\ source[r.layer].georef # "none"
    /\ bboxesIntersect(TileBounds(r), ImgBbox(source[r.layer]))
TooCoarse(r) ==
    /\ r.layer = "slope"
    /\ InsideBoth(r)
    /\ Estimate(r) > HARD_LIMIT_SOURCE_PIXELS

\* C5: for the slope source, when the chosen level's estimate exceeds the
\* hard ceiling the caller is handed a failure, not the no-error transparent
\* tile of an out-of-bounds request.
C5_TooCoarseIsFailure ==
    \A j \in Jobs :
       Opened(j) /\ TooCoarse(req[j]) /\ Ended(j) =>
          \E i \in 1..Len(req[j].dones) : req[j].dones[i].err # "none"

\* C6: for the slope source, when no level fits the soft budget and the
\* coarsest level's estimate exceeds the hard ceiling, the job issues no read
\* and no retry, and once it has finished its slot is released.
C6_TooCoarseNoRead ==
    \A j \in Jobs :
       Requested(j) /\ TooCoarse(req[j]) =>
          /\ req[j].reads = <<>>
          /\ req[j].readFailures = 0
          /\ pc[j] \notin {"read", "retry", "legend"}
          /\ pc[j] = "finished" => released[j] = 1 /\ admitted[j] = 1

C6_Witness ==
    \E j \in Jobs :
       /\ pc[j] = "finished"
       /\ Opened(j)
       /\ TooCoarse(req[j])
       /\ \A i \in 1..Len(source["slope"].levels) :
             computeSourcePixels(source["slope"].levels[i], ImgBbox(source["slope"]),
                                 TileBounds(req[j])) > SAFE_SOURCE_PIXELS
       /\ released[j] = 1
       /\ activeRequests = 0

\* C7: when the read at the chosen level fails, exactly one further read is
\* attempted, against image imageCount - 1; when that fails too the job
\* delivers the read failure. No job issues more than two reads, and the
\* second is issued only after the first failed.
C7_RetryOnceAtCoarsest ==
    \A j \in Jobs :
       Requested(j) =>
          LET r == req[j]
              last == Len(source[r.layer].levels) - 1
          IN  /\ Len(r.reads) <= 2
              /\ r.readFailures <= Len(r.reads)
              /\ Len(r.reads) >= 1 => r.reads[1].level = r.chosen
              /\ Len(r.reads) = 2 <=> r.readFailures >= 1
              /\ Len(r.reads) = 2 => r.reads[2].level = last
              /\ pc[j] = "read" <=> Len(r.reads) = 1 /\ r.readFailures = 0 /\ ~Ended(j)
                                     /\ pc[j] # "legend"
              /\ pc[j] = "retry" <=> Len(r.reads) = 2 /\ r.readFailures = 1 /\ ~Ended(j)
                                      /\ pc[j] # "legend"
              /\ r.readFailures = 2 =>
                    /\ Ended(j)
                    /\ Len(r.dones) = 1 /\ r.dones[1].err = "read failed"
                    /\ Transparent(r)

\* A job whose first read, on a finer image, failed has retried on the last
\* image; and a job has delivered the failure of both reads.
C7_Witness ==
    /\ \E j \in Jobs :
          /\ Requested(j)
          /\ Len(req[j].reads) = 2
          /\ req[j].readFailures = 1
          /\ Len(source[req[j].layer].levels) > 1
          /\ req[j].reads[2].level = Len(source[req[j].layer].levels) - 1
          /\ pc[j] = "finished"
    /\ \E j \in Jobs :
          /\ Requested(j)
          /\ req[j].readFailures = 2
          /\ pc[j] = "finished"

\* A sample that is null, undefined, NaN or negative
Invalid(value) == value.k \in {"null", "undefined", "NaN"} \/ value.v < 0

\* C8: in both variants every null, undefined, NaN or negative sample becomes
\* the pixel (0, 0, 0, 0), whatever the ramp or the legend holds.
C8_NoDataTransparent ==
    /\ \A j \in Jobs :
          Requested(j) /\ ~Transparent(req[j]) =>
             LET band == source[req[j].layer].band
             IN  /\ Len(req[j].pixels) = Len(band)
                 /\ \A i \in 1..Len(band) :
                       Invalid(band[i]) => req[j].pixels[i] = <<0, 0, 0, 0>>
    /\ \A l \in Layers, legend \in {ServedLegend, DefaultLegend},
          value \in {Null, Undefined, NaN, Num(-1), Num(-10), Num(-400)} :
          ColorizePixel(value, l, legend) = <<0, 0, 0, 0>>

\* A fuel tile and a slope tile have been painted, each from a band holding a
\* negative sample; the legend in use has an entry under the key "-1".
C8_Witness ==
    \E j, i \in Jobs :
       /\ Requested(j) /\ Requested(i)
       /\ req[j].layer = "fuel" /\ req[i].layer = "slope"
       /\ ~Transparent(req[j]) /\ ~Transparent(req[i])
       /\ fuelLegendCache # <<>>
       /\ -1 \in DOMAIN fuelLegendCache[1]
       /\ \E n \in 1..Len(req[j].pixels) :
             /\ source["fuel"].band[n] = Num(-10)
             /\ req[j].pixels[n] = <<0, 0, 0, 0>>
       /\ \E n \in 1..Len(req[i].pixels) :
             /\ source["slope"].band[n] = Num(-10)
             /\ req[i].pixels[n] = <<0, 0, 0, 0>>

\* C9: suspended callers are woken in the order in which they were queued.
C9_WokenInOrder ==
    /\ Len(wakeLog) <= Len(enqLog)
    /\ \A i \in 1..Len(wakeLog) : wakeLog[i] = enqLog[i]
    /\ pendingQueue = SubSeq(enqLog, Len(wakeLog) + 1, Len(enqLog))

\* Two callers were queued together and both have been woken.
C9_Witness ==
    /\ Len(wakeLog) >= 2
    /\ wakeLog[1] # wakeLog[2]
    /\ Len(enqLog) >= 2

\* C10: a job whose tile was dropped while it was reading does none of the
\* work that remains (no retry, no legend fetch, no painting), and its slot
\* is released exactly once.
C10_SupersededStops ==
    \A j \in Jobs :
       Requested(j) /\ req[j].supersededAt = "read" =>
          /\ Len(req[j].reads) = 1
          /\ req[j].legendFetches = 0
          /\ Transparent(req[j])
          /\ pc[j] = "finished" => released[j] = 1

\* The opened source answers no bounding box and lacks the tiepoint or the
\* pixel scale.
Ungeoreferenced(r) == ~OutsideEnforced(r) /\ source[r.layer].georef = "none"
GeorefFailure(r) ==
    \E i \in 1..Len(r.dones) : r.dones[i].err = "No georeference information"

\* C11: when the primary image answers no bounding box and its tiepoint or
\* pixel scale is absent, the job delivers the error "No georeference
\* information", chooses no level, reads nothing, and releases its slot.
C11_MissingGeoreferenceFails ==
    \A j \in Jobs :
       Requested(j) /\ Ungeoreferenced(req[j]) =>
          /\ req[j].chosen = -1
          /\ req[j].reads = <<>>
          /\ req[j].legendFetches = 0
          /\ Transparent(req[j])
          /\ pc[j] \notin {"read", "retry", "legend"}
          /\ Opened(j) /\ Ended(j) =>
                /\ Len(req[j].dones) = 1
                /\ GeorefFailure(req[j])
          /\ pc[j] = "finished" => released[j] = 1 /\ admitted[j] = 1

C11_Witness ==
    \E j \in Jobs :
       /\ pc[j] = "finished"
       /\ Opened(j)
       /\ Ungeoreferenced(req[j])
       /\ GeorefFailure(req[j])
       /\ released[j] = 1
       /\ activeRequests = 0

\* C12: once a job has delivered "No georeference information" for a layer,
\* no request arriving later for that layer starts to open its source.
C12_FailedSourceStaysDisabled ==
    [][\A j \in Jobs :
          pc[j] = "idle" /\ pc'[j] = "open" =>
             ~\E i \in Jobs :
                 /\ Requested(i)
                 /\ req[i].layer = req'[j].layer
                 /\ GeorefFailure(req[i])]_vars

\* Jobs whose fetch of /api/cog/fuel-legend is in flight, and jobs whose fetch
\* answered and wrote fuelLegendCache
FetchingLegend == {j \in Jobs : pc[j] = "legend"}
WroteLegendCache ==
    {j \in Jobs : /\ Requested(j)
                  /\ pc[j] # "legend"
                  /\ req[j].legendFetches = 1
                  /\ req[j].legendFailures = 0}

\* C13: over all fuel jobs, concurrent ones included, no legend fetch is
\* issued while another is in flight or after one has succeeded, and the
\* cache is written at most once.
C13_LegendFetchedOnce ==
    /\ Cardinality(FetchingLegend) <= 1
    /\ fuelLegendCache # <<>> => FetchingLegend = {}
    /\ Cardinality(WroteLegendCache) <= 1

\* C14: a fuel job whose legend fetch failed still ends with a painted tile
\* and no error, coloured from the built-in mapping, and releases its slot;
\* the other fuel tiles are coloured from the served legend as before.
C14_LegendFailureFallsBack ==
    \A j \in Jobs :
       Requested(j) /\ req[j].layer = "fuel" /\ pc[j] # "legend" =>
          /\ req[j].legendFailures = 1 =>
                /\ Ended(j)
                /\ NoErrorDelivered(req[j])
                /\ ~Transparent(req[j])
                /\ req[j].pixels = Colorize(source["fuel"].band, "fuel", DefaultLegend)
                /\ pc[j] = "finished" => released[j] = 1
          /\ req[j].legendFailures = 0 /\ ~Transparent(req[j]) =>
                /\ NoErrorDelivered(req[j])
                /\ req[j].pixels = Colorize(source["fuel"].band, "fuel", ServedLegend)

\* One fuel job's legend fetch failed and its tile shows a colour of the
\* built-in mapping; another fuel job has painted from the served legend.
C14_Witness ==
    \E j, i \in Jobs :
       /\ pc[j] = "finished" /\ pc[i] = "finished"
       /\ req[j].layer = "fuel" /\ req[i].layer = "fuel"
       /\ req[j].legendFailures = 1
       /\ \E n \in 1..Len(req[j].pixels) : req[j].pixels[n] = <<173, 221, 142, 255>>
       /\ req[i].legendFailures = 0 /\ req[i].legendFetches = 1
       /\ ~Transparent(req[i])

\* The helper fn has been called and has returned
Returned(fn) == req.fn = fn /\ req.out # <<>>

\* C15: in the fuel variant a valid sample is rounded to the nearest integer
\* and looked up under that integer's key: an entry found gives its colour's
\* RGB with alpha 255 (sample 2 under "2" -> "#addd8e" gives 173, 221, 142,
\* 255); no entry gives 200, 200, 200 with alpha 255; the pixel is never
\* transparent.
C15_LegendLookup ==
    Returned("ColorizePixel") /\ req.args[2] = "fuel" /\ req.args[1].v >= 0 =>
       LET v == req.args[1].v
           legend == req.args[3]
           out == req.out[1]
       IN  /\ out[4] = 255
           /\ \A n \in 0..(MaxSample \div 10 + 1) :
                 10 * n - 5 <= v /\ v < 10 * n + 5 =>
                    /\ n \in DOMAIN legend =>
                          <<out[1], out[2], out[3]>> = hexToRgb(legend[n])
                    /\ n \notin DOMAIN legend =>
                          out = <<200, 200, 200, 255>>
                    /\ n = 2 /\ 2 \in DOMAIN legend =>
                          out = <<173, 221, 142, 255>>

\* Sample 1.6 has been coloured as category 2.
C15_Witness ==
    /\ Returned("ColorizePixel")
    /\ req.args[2] = "fuel"
    /\ req.args[1] = Num(16)
    /\ req.out[1] = <<173, 221, 142, 255>>

\* C16: getSlopeColor(value) for a value between two adjacent stops is, per
\* channel, c1 + (c2 - c1) * (value - v1) / (v2 - v1) rounded to the nearest
\* integer (halves upwards); below the first stop it is the first stop's
\* colour, above the last the last stop's; at a stop it is that stop's colour
\* (and the midpoint of 0 and 255 rounds to 128).
C16_SlopeInterpolation ==
    Returned("getSlopeColor") =>
       LET value == req.args[1]
           out == req.out[1]
           n == Len(SLOPE_COLORMAP)
       IN  /\ value < SLOPE_COLORMAP[1][1] => out = <<247, 252, 245>>
           /\ value > SLOPE_COLORMAP[n][1] => out = <<0, 68, 27>>
           /\ \A i \in 1..(n - 1) :
                 LET v1 == SLOPE_COLORMAP[i][1]
                     v2 == SLOPE_COLORMAP[i + 1][1]
                     rgb1 == hexToRgb(SLOPE_COLORMAP[i][2])
                     rgb2 == hexToRgb(SLOPE_COLORMAP[i + 1][2])
                 IN  v1 <= value /\ value <= v2 =>
                        \A c \in 1..3 :
                           LET exact == rgb1[c] * (v2 - v1) + (rgb2[c] - rgb1[c]) * (value - v1)
                               twice == 2 * (out[c] * (v2 - v1) - exact)
                           IN  -(v2 - v1) < twice /\ twice <= v2 - v1
           /\ \A i \in 1..n :
                 value = SLOPE_COLORMAP[i][1] => out = hexToRgb(SLOPE_COLORMAP[i][2])
           /\ RoundDiv(0 * 10 + (255 - 0) * 5, 10) = 128

\* The colour of slope 12.5, half way between the stops 10 and 15
C16_Witness ==
    /\ Returned("getSlopeColor")
    /\ req.args[1] = 125
    /\ req.out[1] = <<180, 225, 174>>

\* C17: bboxesIntersect(a, b) is true exactly when the closed boxes share a
\* point, so boxes that touch along an edge or at a corner intersect; it is
\* false exactly when one lies strictly beside, above or below the other;
\* and it is the same for (b, a).
C17_IntersectClosed ==
    Returned("bboxesIntersect") =>
       LET a == req.args[1]
           b == req.args[2]
       IN  /\ a \in Boxes /\ b \in Boxes =>
                 req.out[1] =
                    \E x \in 0..MaxCoord, y \in 0..MaxCoord :
                       /\ a[1] <= x /\ x <= a[3] /\ a[2] <= y /\ y <= a[4]
                       /\ b[1] <= x /\ x <= b[3] /\ b[2] <= y /\ y <= b[4]
           /\ req.out[1] = bboxesIntersect(b, a)

\* Two boxes that touch at one corner only were found to intersect.
C17_Witness ==
    /\ Returned("bboxesIntersect")
    /\ req.args[1] = <<0, 0, 1, 1>>
    /\ req.args[2] = <<1, 1, 2, 3>>
    /\ req.out[1] = TRUE

\* The tile's footprint restricted to the source's extent
TileWindow(r) ==
    LET tb == TileBounds(r)
        ib == ImgBbox(source[r.layer])
    IN  <<Max(tb[1], ib[1]), Max(tb[2], ib[2]), Min(tb[3], ib[3]), Min(tb[4], ib[4])>>

\* C18: every read a job issues asks for the tile's window (its footprint
\* restricted to the source's extent) as a TileSize x TileSize grid; when the
\* tile covers only part of the source the read is not of the whole extent.
C18_ReadCoversTileWindow ==
    \A j \in Jobs :
       Requested(j) =>
          \A k \in 1..Len(req[j].reads) :
             /\ req[j].reads[k].width = TileSize
             /\ req[j].reads[k].height = TileSize
             /\ req[j].reads[k].bbox = TileWindow(req[j])
             /\ TileWindow(req[j]) # ImgBbox(source[req[j].layer]) =>
                   req[j].reads[k].bbox # ImgBbox(source[req[j].layer])

\* C19: the overview loop chooses the largest image index whose estimate is
\* within SAFE_SOURCE_PIXELS (the first found scanning from imageCount - 1
\* down to 0), and imageCount - 1 when no image is within it.
C19_CoarsestFit ==
    Returned("ChooseOverview") =>
       LET levels == req.args[1]
           estimate(i) == computeSourcePixels(levels[i + 1], req.args[2], req.args[3])
           fits == {i \in 0..Len(levels) - 1 : estimate(i) <= SAFE_SOURCE_PIXELS}
           out == req.out[1]
       IN  /\ fits # {} =>
                 /\ out.index \in fits
                 /\ \A i \in fits : i <= out.index
           /\ fits = {} => out.index = Len(levels) - 1
           /\ out.pixels = estimate(out.index)

\* The choice was made for a catalog in which a finer and a coarser image fit
\* and one in between does not; and the coarser one was chosen.
C19_Witness ==
    /\ Returned("ChooseOverview")
    /\ req.args[1] = <<<<500, 250>>, <<40000, 20000>>, <<8000, 4000>>>>
    /\ req.args[3] = tileToBBox(2, 5, 4)
    /\ req.args[2] = ImgBbox(SrcWide)
    /\ req.out[1].index = 2
    /\ req.out[1].pixels <= SAFE_SOURCE_PIXELS

\* The fuel source's coarsest estimate for the tile exceeds the hard ceiling.
LenientOverCeiling(r) ==
    /\ r.layer = "fuel"
    /\ InsideBoth(r)
    /\ Estimate(r) > HARD_LIMIT_SOURCE_PIXELS

\* C20: for the fuel source an estimate above the hard ceiling never ends the
\* job: once the source is open the job reads image imageCount - 1, and when
\* a read has answered and the canvas has a context it paints the tile.
C20_LenientProceeds ==
    \A j \in Jobs :
       Opened(j) /\ LenientOverCeiling(req[j]) =>
          LET r == req[j]
              last == Len(source[r.layer].levels) - 1
          IN  /\ r.chosen = last
              /\ Len(r.reads) >= 1
              /\ r.reads[1].level = last
              /\ Ended(j) /\ r.readFailures < Len(r.reads)
                    /\ r.dones[1].err # "Cannot get canvas context" =>
                       /\ ~Transparent(r)
                       /\ NoErrorDelivered(r)

\* A fuel tile over the hard ceiling has been painted from the coarser of
\* the source's two images.
C20_Witness ==
    \E j \in Jobs :
       /\ pc[j] = "finished"
       /\ Opened(j)
       /\ LenientOverCeiling(req[j])
       /\ Len(source["fuel"].levels) = 2
       /\ req[j].reads[1].level = 1
       /\ ~Transparent(req[j])

\* The tile passes both intersection tests but its footprint clamped to the
\* source's extent has no width or no height.
EmptyWindow(r) ==
    /\ InsideBoth(r)
    /\ \A i \in 1..Len(source[r.layer].levels) :
          computeSourcePixels(source[r.layer].levels[i], ImgBbox(source[r.layer]),
                              TileBounds(r)) = 0

\* C21: when the tile's footprint clamped to the source's extent is empty
\* (estimate 0), the job issues no read and ends with a transparent tile and
\* no error.
C21_EmptyWindowSkipsRead ==
    \A j \in Jobs :
       Requested(j) /\ EmptyWindow(req[j]) =>
          /\ req[j].reads = <<>>
          /\ Transparent(req[j])
          /\ Opened(j) /\ Ended(j) => NoErrorDelivered(req[j])

\* C22: a request whose tile lies outside COG_BOUNDS is answered without
\* waiting at the gate and without taking a slot.
C22_SkipBeforeGate ==
    \A j \in Jobs :
       Requested(j) /\ OutsideEnforced(req[j]) =>
          /\ admitted[j] = 0
          /\ pc[j] \notin {"waiting", "woken"}

\* C23: whenever done is called for an admitted job, the job's slot has
\* already been released.
C23_ReleasedBeforeDone ==
    \A j \in Jobs :
       Requested(j) =>
          \A i \in 1..Len(req[j].dones) : ~req[j].dones[i].slotHeld

\* C24: no caller is admitted while a caller that arrived before it is still
\* queued, or woken and not yet admitted.
C24_AdmittedInArrivalOrder ==
    \A i \in Jobs, j \in Jobs :
       i < j /\ pc[i] \in {"waiting", "woken"} => admitted[j] = 0

\* C25: a box with minLon > maxLon or minLat > maxLat is an empty region:
\* bboxesIntersect of such a box with any box is false.
C25_InvertedNeverIntersects ==
    Returned("bboxesIntersect") =>
       (req.args[1] \in InvertedBoxes \/ req.args[2] \in InvertedBoxes =>
           req.out[1] = FALSE)

\* Width and height do not grow with the image index
NonIncreasing(levels) ==
    \A i \in 1..Len(levels) - 1 :
       levels[i + 1][1] <= levels[i][1] /\ levels[i + 1][2] <= levels[i][2]

\* C30: for a catalog whose images do not grow with the index, the overview
\* loop always ends on image imageCount - 1, also when a finer image is within
\* SAFE_SOURCE_PIXELS.
C30_AlwaysCoarsest ==
    Returned("ChooseOverview") /\ NonIncreasing(req.args[1]) =>
       req.out[1].index = Len(req.args[1]) - 1

\* The last of three shrinking images was chosen although the second, finer
\* one is within the budget too.
C30_Witness ==
    /\ Returned("ChooseOverview")
    /\ req.args[1] = <<<<40000, 20000>>, <<8000, 4000>>, <<500, 250>>>>
    /\ computeSourcePixels(req.args[1][2], req.args[2], req.args[3]) <= SAFE_SOURCE_PIXELS
    /\ computeSourcePixels(req.args[1][2], req.args[2], req.args[3]) > 0
    /\ req.out[1].index = 2

\* C27: when every admitted job finishes, every caller suspended at the gate
\* is eventually admitted; no caller stays queued while no job is active and
\* none is about to resume; and once every caller has finished the queue is
\* empty and activeRequests is 0. (A caller that has left the wait never
\* returns to it, so "every waiter is eventually admitted" is "from some
\* point on no caller is queued or woken and not yet admitted".)
C27_NoLostWakeup ==
    /\ [](pendingQueue # <<>> => activeRequests > 0 \/ resumeQueue # <<>>)
    /\ []((\A j \in Jobs : pc[j] = "finished") =>
             pendingQueue = <<>> /\ resumeQueue = <<>> /\ activeRequests = 0)
    /\ <>[](\A j \in Jobs : pc[j] \notin {"waiting", "woken"})

\* Every caller has finished, two of them after waiting at the gate.
C27_Witness ==
    /\ \A j \in Jobs : pc[j] = "finished"
    /\ Len(wakeLog) >= 2
    /\ activeRequests = 0
    /\ pendingQueue = <<>>

\* C28: done is called at most once per request, not before the job's body
\* has ended, and exactly once when it has: after each return of the body
\* (skips, missing georeference, too coarse, failed reads, no canvas context,
\* painted tile) and, through the catch, after a throw.
C28_DoneExactlyOnce ==
    \A j \in Jobs :
       Requested(j) =>
          /\ Len(req[j].dones) <= 1
          /\ pc[j] \in {"waiting", "woken", "open", "read", "retry", "legend"} =>
                req[j].dones = <<>>
          /\ pc[j] = "settled" => (Len(req[j].dones) = 1 <=> ~threw[j])
          /\ pc[j] = "finished" => Len(req[j].dones) = 1

\* One request was answered through the catch after a throw and another
\* after both of its reads failed.
C28_Witness ==
    \E j, i \in Jobs :
       /\ pc[j] = "finished" /\ pc[i] = "finished"
       /\ req[j].dones = <<[err |-> "thrown", slotHeld |-> FALSE]>>
       /\ req[i].readFailures = 2
       /\ Len(req[i].dones) = 1

\* The estimate of image `level` (0-based) for the request's tile
EstimateAt(r, level) ==
    computeSourcePixels(source[r.layer].levels[level + 1], ImgBbox(source[r.layer]),
                        TileBounds(r))

\* C29: for the slope source no readRasters call, first attempt or retry, is
\* made on an image whose estimate exceeds HARD_LIMIT_SOURCE_PIXELS, whatever
\* the order of the image sizes.
C29_StrictReadsWithinCeiling ==
    \A j \in Jobs :
       Requested(j) /\ req[j].layer = "slope" =>
          \A k \in 1..Len(req[j].reads) :
             EstimateAt(req[j], req[j].reads[k].level) <= HARD_LIMIT_SOURCE_PIXELS

====
